---- MODULE Spec2Model ----
(***************************************************************************)
(* State-machine model of the crisisManagement dashboard front end:        *)
(*   - Dashboard.tsx: the WebSocket connection with its 3 s reconnect      *)
(*     timer, and the bounded histories (data, sites[i].data) it keeps;    *)
(*   - usePerformanceMonitor.ts: the FPS, memory and ping/pong latency     *)
(*     samplers that write the shared stats record and its alerts.         *)
(*   - useWebSocket.ts: the hook that keeps the last parsed messages.      *)
(* Five specifications share the module: Spec (Dashboard), SpecMon (the    *)
(* three samplers of the performance-monitor hook), SpecPing (its latency  *)
(* prober through every readyState of the socket), SpecLife (the hook      *)
(* across socket restarts and unmount, at one instant) and SpecWs          *)
(* (useWebSocket).  Each leaves the variables of the other components      *)
(* alone.                                                                  *)
(***************************************************************************)
EXTENDS Integers, Sequences, FiniteSets, TLC

VARIABLES
  \* ---- Dashboard.tsx
  data,        \* useState<DataPoint[]>: the global live data array
  sites,       \* useState<Site[]>: one entry per siteId, each with its window
  socks,       \* every WebSocket object created so far, by creation order
  wsRef,       \* wsRef.current: index into socks of the latest socket (0 = null)
  timers,      \* number of pending setTimeout(connectWebSocket, 3000) timers
  mounted,     \* FALSE once the useEffect cleanup has run
  closeCalls,  \* history: number of WebSocket.close() calls made by the cleanup
  msgCount,    \* history: number of message events delivered to onmessage
  lastRaw,     \* history: the raw payload of the previous message event
  ingested,    \* history: per siteId, number of events handed to setSites
  received,    \* history: per siteId, the events handed to setSites, in order
  uncaught,    \* history: exceptions that escaped onmessage (no try/catch)
  seen,        \* history: the siteIds handed to setSites, by first appearance
  inPlace,     \* history: an updater wrote to an array or object of prev
  \* ---- usePerformanceMonitor.ts
  stats,       \* useState<PerformanceStats>
  frameCount,  \* frameCount.current
  lastFrame,   \* lastFrame.current
  latencyStart,\* latencyStart.current (Null or the Date.now() of the last ping)
  now,         \* Date.now()
  hasMemory,   \* the host exposes window.performance.memory
  hs,          \* the sockets Dashboard has stored in wsRef.current, in order:
               \* readyState, pending close event, and the listeners / ping
               \* interval the hook holds on each
  hookArg,     \* the ws the [ws] effect last ran with: index into hs (0 = null)
  cleanupRef,  \* cleanupRef.current: the socket whose cleanup it holds (0 = null)
  hookMounted, \* FALSE once the hook's effects have been cleaned up
  rafActive,   \* a requestAnimationFrame callback is scheduled
  memActive,   \* the 3 s memory setInterval is active
  lastUsed,    \* history: usedJSHeapSize read by the last memory sample
  lastTotal,   \* history: totalJSHeapSize read by the last memory sample
  lastT,       \* history: the time handed to the last render callback
  uncounted,   \* history: render callbacks run, minus those reported as fps,
               \* minus those held in frameCount
  lastOp,      \* history: the handler that ran last
  prevStats,   \* history: stats before the handler that ran last
  prevStart,   \* history: latencyStart before the handler that ran last
  \* ---- useWebSocket.ts
  wsData,      \* useState<DataPoint[]> of useWebSocket
  wsReadyState,\* readyState of the socket the hook's effect created
  wsMounted,   \* FALSE once the hook's effect cleanup has run
  wsArrived,   \* history: the points parsed while mounted, in arrival order
  wsCount,     \* history: number of message events delivered
  \* ---- useDataProcessor
  processedData, \* useState<T[]>
  processing,  \* useState(false)
  runs,        \* one record per processData call: the closure's data, index
               \* and result, whether a processChunk of it is still due, and
               \* (history) the callbacks it ran and its setProcessedData calls
  idleQueue    \* the requestIdleCallback queue: the runs whose processChunk
               \* is posted, in posting order

dashVars == <<data, sites, socks, wsRef, timers, mounted, closeCalls, msgCount,
              lastRaw, ingested, received, uncaught, seen, inPlace>>
monVars  == <<stats, frameCount, lastFrame, latencyStart, now, hasMemory, hs, hookArg,
              cleanupRef, hookMounted, rafActive, memActive, lastUsed, lastTotal,
              lastT, uncounted, lastOp, prevStats, prevStart>>
wsVars   == <<wsData, wsReadyState, wsMounted, wsArrived, wsCount>>
procVars == <<processedData, processing, runs, idleQueue>>
vars     == <<dashVars, monVars, wsVars, procVars>>

\* JavaScript null in a number | null cell (latencyStart.current)
Null == -1

(***************************************************************************)
(* Bounds of the model.                                                    *)
(***************************************************************************)
\* Dashboard.tsx:27 sets MAX_POINTS = 200; the model scales the capacity down
\* (every use of it in the code is a comparison with, or a slice by, MAX_POINTS).
MAX_POINTS == 2
MaxMsgs    == 4      \* message events delivered in one run
MaxSockets == 3      \* WebSocket objects created in one run
SiteIds    == {"a", "b"}
Undefined  == "undefined"       \* the siteId of a payload that has none

(***************************************************************************)
(* Dashboard.tsx: pure helpers                                             *)
(***************************************************************************)
\* Array.prototype.slice(-n), n > 0: the last n elements
slice(arr, n) ==
  IF Len(arr) <= n THEN arr ELSE SubSeq(arr, Len(arr) - n + 1, Len(arr))

\* (no entry is ever found)
findIndex_none(prev, siteId) == 0

\* Array.prototype.findIndex(s => s.siteId === siteId); 0 stands for -1
findIndex(prev, siteId) ==
  IF \E k \in 1..Len(prev) : prev[k].siteId = siteId
    THEN CHOOSE k \in 1..Len(prev) :
           /\ prev[k].siteId = siteId
           /\ \A j \in 1..(k - 1) : prev[j].siteId # siteId
    ELSE 0

\* arr[arr.length-1]?.id
lastId(arr) == IF Len(arr) = 0 THEN Undefined ELSE arr[Len(arr)].id

\* The wire payloads the event source may send.
RawMessages ==
  [kind : {"metric"}, siteId : SiteIds] \cup
  {[kind |-> "pong", siteId |-> Undefined],
   [kind |-> "malformed", siteId |-> Undefined]}

\* JSON.parse(event.data): throws on a non-parseable payload
JSONparses(raw) == raw.kind # "malformed"

\* Math.random() returns either a value it has not returned before or, again,
\* the id of the element at the tail of data or of a site's window (the only
\* ids the code ever compares a new id with).
freshId == msgCount + 1
tailIds ==
  {data[k].id : k \in {Len(data)} \ {0}} \cup
  {sites[k].data[Len(sites[k].data)].id : k \in 1..Len(sites)}

\* enrichedData = {...newData, timestamp: Date.now(), id: Math.random()}
enrich(raw, id) == [siteId |-> raw.siteId, id |-> id]

\* the updater passed to setData
setData(prev, enrichedData) ==
  LET newDataArray == Append(slice(prev, MAX_POINTS), enrichedData) IN
  IF Len(prev) = Len(newDataArray) /\ lastId(prev) = lastId(newDataArray)
    THEN prev
    ELSE newDataArray

\* the updater passed to setSites
setSites(prev, enrichedData) ==
  LET index == findIndex(prev, enrichedData.siteId) IN
  IF index = 0
    THEN Append(prev, [siteId |-> enrichedData.siteId, data |-> <<enrichedData>>])
    ELSE LET updatedData == Append(slice(prev[index].data, MAX_POINTS), enrichedData) IN
         IF Len(prev[index].data) = Len(updatedData)
            /\ lastId(prev[index].data) = lastId(updatedData)
           THEN prev
           ELSE [prev EXCEPT ![index].data = updatedData]

\* (the new entry pushed onto the window held by prev)
prevAfter_push(prev, enrichedData) ==
  LET index == findIndex(prev, enrichedData.siteId) IN
  IF index = 0
    THEN prev
    ELSE [prev EXCEPT ![index].data = Append(@, enrichedData)]

\* what the array prev, and the objects and windows it holds, contain once the
\* updater passed to setSites has run: findIndex, slice and the spreads read
\* prev and build new arrays and objects, and `updated[index] = updatedSite`
\* writes to the copy [...prev]; no statement writes to prev or to what it holds
prevAfter(prev, enrichedData) == prev

\* The Site record holds siteId, siteName and data only: nothing in Dashboard.tsx
\* keeps an aggregate of the entries slice() leaves out.
baselineCount(site) == 0

(***************************************************************************)
(* Dashboard.tsx: the connection                                           *)
(* A socket is CONNECTING, OPEN, CLOSING (close() called on an open        *)
(* socket), ABORTING (close() called while connecting: the connection is   *)
(* failed, error and close events are due), ERRORED (error event           *)
(* dispatched, close event due) or CLOSED.  A WebSocket object dispatches  *)
(* at most one error event, always followed by its close event.            *)
(***************************************************************************)
Live(s) == s \in {"CONNECTING", "OPEN"}

\* connectWebSocket: wsRef.current = new WebSocket(...), handlers attached
connectWebSocket ==
  /\ socks' = Append(socks, "CONNECTING")
  /\ wsRef' = Len(socks) + 1

\* wsRef.current.onerror
onerror == timers' = timers + 1

\* (a setInterval in place of the setTimeout: the timer stays pending)
TimerFires_interval ==
  /\ timers > 0
  /\ Len(socks) < MaxSockets + 1
  /\ timers' = timers
  /\ connectWebSocket
  /\ UNCHANGED <<data, sites, mounted, closeCalls, msgCount, lastRaw, ingested,
                 received, uncaught, seen, inPlace>>
  /\ UNCHANGED <<monVars, wsVars, procVars>>

\* setTimeout fires: the timer is consumed and connectWebSocket runs
TimerFires ==
  /\ timers > 0
  /\ timers' = timers - 1
  /\ connectWebSocket
  /\ UNCHANGED <<data, sites, mounted, closeCalls, msgCount, lastRaw, ingested,
                 received, uncaught, seen, inPlace>>
  /\ UNCHANGED <<monVars, wsVars, procVars>>

\* the transport opens socket i
SockOpen(i) ==
  /\ socks[i] = "CONNECTING"
  /\ socks' = [socks EXCEPT ![i] = "OPEN"]
  /\ UNCHANGED <<data, sites, wsRef, timers, mounted, closeCalls, msgCount,
                 lastRaw, ingested, received, uncaught, seen, inPlace>>
  /\ UNCHANGED <<monVars, wsVars, procVars>>

\* the transport fails socket i: its error event is dispatched to onerror
SockError(i) ==
  /\ socks[i] \in {"CONNECTING", "OPEN", "CLOSING", "ABORTING"}
  /\ Len(socks) + timers < MaxSockets
  /\ socks' = [socks EXCEPT ![i] = "ERRORED"]
  /\ onerror
  /\ UNCHANGED <<data, sites, wsRef, mounted, closeCalls, msgCount, lastRaw, ingested,
                 received, uncaught, seen, inPlace>>
  /\ UNCHANGED <<monVars, wsVars, procVars>>

\* the close event of socket i (after an error, or a close without error):
\* Dashboard registers no onclose handler
SockClose(i) ==
  /\ socks[i] \in {"OPEN", "CLOSING", "ERRORED"}
  /\ socks' = [socks EXCEPT ![i] = "CLOSED"]
  /\ UNCHANGED <<data, sites, wsRef, timers, mounted, closeCalls, msgCount,
                 lastRaw, ingested, received, uncaught, seen, inPlace>>
  /\ UNCHANGED <<monVars, wsVars, procVars>>

\* wsRef.current.onmessage for socket i.  JSON.parse throws on a malformed
\* payload before any state update, and nothing in the handler catches it.
\* State updates of an unmounted component are discarded by React.
onmessage(i, raw, id) ==
  /\ socks[i] = "OPEN"
  /\ msgCount < MaxMsgs
  /\ msgCount' = msgCount + 1
  /\ lastRaw' = raw
  /\ uncaught' = IF JSONparses(raw) THEN uncaught ELSE uncaught + 1
  /\ IF JSONparses(raw) /\ mounted
       THEN /\ data' = setData(data, enrich(raw, id))
            /\ sites' = setSites(sites, enrich(raw, id))
            /\ ingested' = [ingested EXCEPT ![raw.siteId] = @ + 1]
            /\ received' = [received EXCEPT ![raw.siteId] = Append(@, enrich(raw, id))]
            /\ seen' = IF \E k \in 1..Len(seen) : seen[k] = raw.siteId
                         THEN seen
                         ELSE Append(seen, raw.siteId)
            /\ inPlace' = (inPlace \/ prevAfter(sites, enrich(raw, id)) # sites)
       ELSE UNCHANGED <<data, sites, ingested, received, seen, inPlace>>
  /\ UNCHANGED <<socks, wsRef, timers, mounted, closeCalls>>
  /\ UNCHANGED <<monVars, wsVars, procVars>>

\* the useEffect cleanup: wsRef.current?.close()
cleanup ==
  /\ mounted
  /\ mounted' = FALSE
  /\ IF wsRef # 0
       THEN /\ closeCalls' = closeCalls + 1
            /\ socks' = [socks EXCEPT ![wsRef] =
                 CASE socks[wsRef] = "CONNECTING" -> "ABORTING"
                   [] socks[wsRef] = "OPEN"       -> "CLOSING"
                   [] OTHER                       -> socks[wsRef]]
       ELSE UNCHANGED <<closeCalls, socks>>
  /\ UNCHANGED <<data, sites, wsRef, timers, msgCount, lastRaw, ingested, received,
                 uncaught, seen, inPlace>>
  /\ UNCHANGED <<monVars, wsVars, procVars>>

(***************************************************************************)
(* usePerformanceMonitor.ts                                                *)
(***************************************************************************)
LOW_FPS      == 30        \* fps < 30
HIGH_MEMORY  == 400       \* used > 400
HIGH_LATENCY == 200       \* latency > 200
FPS_WINDOW   == 1000      \* now - lastFrame.current >= 1000
MB           == 1048576   \* bytes per megabyte

MaxWindows == 3           \* one-second windows the frame timestamps span
MaxHookSockets == 2       \* sockets Dashboard hands to the hook in one run
MaxLifeFrames  == 2       \* render callbacks counted while sockets restart
MaxFrames  == 31          \* render callbacks counted in one window

\* timestamps (performance.now) handed to the render callbacks
PerfTimes  == {FPS_WINDOW * k : k \in 0..MaxWindows}
\* frames the display delivers in a window that ends with a report
FrameRates == {25, 29, 30, MaxFrames}
\* values of Date.now()
Times      == {0, 50, 250, 251}
\* usedJSHeapSize and totalJSHeapSize readings, in bytes
UsedHeap   == {300 * MB, 400 * MB + 1, 500 * MB}
TotalHeap  == {600 * MB}

LowFps      == "Low FPS"
HighMemory  == "High Memory Usage"
HighLatency == "High WebSocket Latency"

\* String.prototype.includes on the alert texts
includes(a, needle) ==
  \/ needle = "Memory"  /\ a = HighMemory
  \/ needle = "Latency" /\ a = HighLatency

\* prev.alerts.filter(a => !a.includes(needle))
filterOut(alerts, needle) ==
  LET keep(a) == ~includes(a, needle) IN SelectSeq(alerts, keep)

\* Math.round(bytes / 1048576)
roundMB(bytes) == (2 * bytes + MB) \div (2 * MB)

\* the initial value handed to useState
InitStats == [fps |-> 0, memoryUsedMB |-> 0, memoryTotalMB |-> 0,
              latencyMs |-> 0, alerts |-> <<>>]

\* (no test of the pending ping at all)
truthy_always(x) == TRUE

\* JavaScript truthiness of latencyStart.current (number | null)
truthy(x) == x # Null /\ x # 0

\* (the Low FPS alert appended to the previous alerts, never retracted)
fpsUpdate_sticky(prev, fps) ==
  [prev EXCEPT !.fps = fps,
               !.alerts = prev.alerts \o (IF fps < LOW_FPS THEN <<LowFps>> ELSE <<>>)]

\* setStats of the FPS tracker
fpsUpdate(prev, fps) ==
  [prev EXCEPT !.fps = fps,
               !.alerts = IF fps < LOW_FPS THEN <<LowFps>> ELSE <<>>]

\* (the alert decided on the rounded, reported value)
memoryUpdate_rounded(prev, used, total) ==
  [prev EXCEPT !.memoryUsedMB = roundMB(used),
               !.memoryTotalMB = roundMB(total),
               !.alerts = filterOut(prev.alerts, "Memory") \o
                          (IF roundMB(used) > HIGH_MEMORY THEN <<HighMemory>> ELSE <<>>)]

\* setStats of the memory tracker (used, total in bytes)
memoryUpdate(prev, used, total) ==
  [prev EXCEPT !.memoryUsedMB = roundMB(used),
               !.memoryTotalMB = roundMB(total),
               !.alerts = filterOut(prev.alerts, "Memory") \o
                          (IF used > HIGH_MEMORY * MB THEN <<HighMemory>> ELSE <<>>)]

\* (the update built from the stats the effect captured, not from prev)
latencyUpdate_stale(prev, latency) ==
  [InitStats EXCEPT !.latencyMs = latency,
                    !.alerts = filterOut(prev.alerts, "Latency") \o
                               (IF latency > HIGH_LATENCY THEN <<HighLatency>> ELSE <<>>)]

\* setStats of onMessage
latencyUpdate(prev, latency) ==
  [prev EXCEPT !.latencyMs = latency,
               !.alerts = filterOut(prev.alerts, "Latency") \o
                          (IF latency > HIGH_LATENCY THEN <<HighLatency>> ELSE <<>>)]

\* every handler records what it found; op names the handlers the properties
\* single out, "other" any other one
Record(op) ==
  /\ lastOp' = op
  /\ prevStats' = stats
  /\ prevStart' = latencyStart

\* (the callback that triggers the report is left out of it)
loop_exclusive(t) ==
  /\ rafActive
  /\ t >= lastFrame
  /\ frameCount < MaxFrames
  /\ (t - lastFrame >= FPS_WINDOW) => (frameCount \in FrameRates)
  /\ IF t - lastFrame >= FPS_WINDOW
       THEN /\ stats' = fpsUpdate(stats, frameCount)
            /\ frameCount' = 0
            /\ lastFrame' = t
            /\ Record("fps")
       ELSE /\ frameCount' = frameCount + 1
            /\ Record("other")
            /\ UNCHANGED <<stats, lastFrame>>
  /\ lastT' = t
  /\ uncounted' = uncounted + (frameCount + 1)
                     - (IF t - lastFrame >= FPS_WINDOW THEN stats'.fps ELSE 0)
                     - frameCount'
  /\ UNCHANGED <<latencyStart, now, hasMemory, hs, hookArg, cleanupRef, hookMounted,
                 rafActive, memActive, lastUsed, lastTotal>>
  /\ UNCHANGED <<dashVars, wsVars, procVars>>

\* loop(now): one requestAnimationFrame callback
loop(t) ==
  /\ rafActive
  /\ t >= lastFrame
  /\ frameCount < MaxFrames
  /\ (t - lastFrame >= FPS_WINDOW) => (frameCount + 1 \in FrameRates)
  /\ IF t - lastFrame >= FPS_WINDOW
       THEN /\ stats' = fpsUpdate(stats, frameCount + 1)
            /\ frameCount' = 0
            /\ lastFrame' = t
            /\ Record("fps")
       ELSE /\ frameCount' = frameCount + 1
            /\ Record("other")
            /\ UNCHANGED <<stats, lastFrame>>
  /\ lastT' = t
  /\ uncounted' = uncounted + (frameCount + 1)
                     - (IF t - lastFrame >= FPS_WINDOW THEN stats'.fps ELSE 0)
                     - frameCount'
  /\ UNCHANGED <<latencyStart, now, hasMemory, hs, hookArg, cleanupRef, hookMounted,
                 rafActive, memActive, lastUsed, lastTotal>>
  /\ UNCHANGED <<dashVars, wsVars, procVars>>

\* (the sample is taken without testing whether the host exposes the heap)
memoryTick_unguarded(used, total) ==
  /\ memActive
  /\ stats' = memoryUpdate(stats, used, total)
  /\ lastUsed' = used
  /\ lastTotal' = total
  /\ Record("memory")
  /\ UNCHANGED <<frameCount, lastFrame, latencyStart, now, hasMemory, hs, hookArg,
                 cleanupRef, hookMounted, rafActive, memActive>>
  /\ UNCHANGED <<lastT, uncounted>>
  /\ UNCHANGED <<dashVars, wsVars, procVars>>

\* the 3 s memory interval fires
memoryTick(used, total) ==
  /\ memActive
  /\ IF hasMemory
       THEN /\ stats' = memoryUpdate(stats, used, total)
            /\ lastUsed' = used
            /\ lastTotal' = total
            /\ Record("memory")
       ELSE /\ Record("memory_unsupported")
            /\ UNCHANGED <<stats, lastUsed, lastTotal>>
  /\ UNCHANGED <<frameCount, lastFrame, latencyStart, now, hasMemory, hs, hookArg,
                 cleanupRef, hookMounted, rafActive, memActive>>
  /\ UNCHANGED <<lastT, uncounted>>
  /\ UNCHANGED <<dashVars, wsVars, procVars>>

\* a WebSocket that connectWebSocket has just created
NewSocket == [ready |-> "CONNECTING", closeDue |-> FALSE, openL |-> FALSE,
              msgL |-> FALSE, ping |-> FALSE, cleanL |-> FALSE]

\* handleOpen on socket i of h: start the ping interval, listen for messages,
\* register cleanup for close and error, store it in cleanupRef
handleOpen(h, i) ==
  /\ hs' = [h EXCEPT ![i].ping = TRUE, ![i].msgL = TRUE, ![i].cleanL = TRUE]
  /\ cleanupRef' = i

\* the cleanup closure handleOpen made for socket i: clearInterval(pingInterval),
\* ws.removeEventListener("message", onMessage)
pingCleanup(h, i) == [h EXCEPT ![i].ping = FALSE, ![i].msgL = FALSE]

\* the function the [ws] effect returns, for the effect that ran with socket arg
effectCleanup(h, arg, ref) ==
  LET h1 == IF ref # 0 THEN pingCleanup(h, ref) ELSE h
  IN [h1 EXCEPT ![arg].openL = FALSE]

\* (the effect of the previous socket is not cleaned up when ws changes)
wsEffect_nocleanup ==
  /\ hookMounted
  /\ hookArg # Len(hs)
  /\ hookArg' = Len(hs)
  /\ IF hs[Len(hs)].ready = "OPEN"
       THEN handleOpen(hs, Len(hs))
       ELSE /\ hs' = [hs EXCEPT ![Len(hs)].openL = TRUE]
            /\ UNCHANGED cleanupRef
  /\ Record("other")
  /\ UNCHANGED <<stats, frameCount, lastFrame, latencyStart, now, hasMemory,
                 hookMounted, rafActive, memActive, lastUsed, lastTotal>>
  /\ UNCHANGED <<lastT, uncounted>>
  /\ UNCHANGED <<dashVars, wsVars, procVars>>

\* a render passes the socket in wsRef.current to the hook and it differs from
\* the one the [ws] effect last ran with: the previous effect is cleaned up,
\* then the effect runs with the new socket
wsEffect ==
  /\ hookMounted
  /\ hookArg # Len(hs)
  /\ hookArg' = Len(hs)
  /\ LET h1 == IF hookArg # 0 THEN effectCleanup(hs, hookArg, cleanupRef) ELSE hs
     IN IF h1[Len(hs)].ready = "OPEN"
          THEN handleOpen(h1, Len(hs))
          ELSE /\ hs' = [h1 EXCEPT ![Len(hs)].openL = TRUE]
               /\ UNCHANGED cleanupRef
  /\ Record("other")
  /\ UNCHANGED <<stats, frameCount, lastFrame, latencyStart, now, hasMemory,
                 hookMounted, rafActive, memActive, lastUsed, lastTotal>>
  /\ UNCHANGED <<lastT, uncounted>>
  /\ UNCHANGED <<dashVars, wsVars, procVars>>

\* Dashboard's connectWebSocket stores a new socket in wsRef.current
wsRestart ==
  /\ hookMounted
  /\ Len(hs) < MaxHookSockets
  /\ hs' = Append(hs, NewSocket)
  /\ Record("other")
  /\ UNCHANGED <<stats, frameCount, lastFrame, latencyStart, now, hasMemory, hookArg,
                 cleanupRef, hookMounted, rafActive, memActive, lastUsed, lastTotal>>
  /\ UNCHANGED <<lastT, uncounted>>
  /\ UNCHANGED <<dashVars, wsVars, procVars>>

\* the open event of socket i
wsOpen(i) ==
  /\ hs[i].ready = "CONNECTING"
  /\ LET h1 == [hs EXCEPT ![i].ready = "OPEN"]
     IN IF hs[i].openL
          THEN handleOpen(h1, i)
          ELSE hs' = h1 /\ UNCHANGED cleanupRef
  /\ Record("other")
  /\ UNCHANGED <<stats, frameCount, lastFrame, latencyStart, now, hasMemory, hookArg,
                 hookMounted, rafActive, memActive, lastUsed, lastTotal>>
  /\ UNCHANGED <<lastT, uncounted>>
  /\ UNCHANGED <<dashVars, wsVars, procVars>>

\* the closing handshake of socket i starts (ws.close(), or a close frame of
\* the peer): readyState is CLOSING until the close event
wsClosing(i) ==
  /\ hs[i].ready = "OPEN"
  /\ hs' = [hs EXCEPT ![i].ready = "CLOSING"]
  /\ Record("other")
  /\ UNCHANGED <<stats, frameCount, lastFrame, latencyStart, now, hasMemory, hookArg,
                 cleanupRef, hookMounted, rafActive, memActive, lastUsed, lastTotal>>
  /\ UNCHANGED <<lastT, uncounted>>
  /\ UNCHANGED <<dashVars, wsVars, procVars>>

\* the error event of socket i (the connection failed; its close event
\* follows): the cleanup listener runs if handleOpen registered it
wsError(i) ==
  /\ hs[i].ready \in {"CONNECTING", "OPEN", "CLOSING"}
  /\ LET h1 == [hs EXCEPT ![i].ready = "CLOSED", ![i].closeDue = TRUE]
     IN hs' = IF hs[i].cleanL THEN pingCleanup(h1, i) ELSE h1
  /\ Record("error")
  /\ UNCHANGED <<stats, frameCount, lastFrame, latencyStart, now, hasMemory, hookArg,
                 cleanupRef, hookMounted, rafActive, memActive, lastUsed, lastTotal>>
  /\ UNCHANGED <<lastT, uncounted>>
  /\ UNCHANGED <<dashVars, wsVars, procVars>>

\* the close event of socket i: the cleanup listener runs if handleOpen
\* registered it
wsClose(i) ==
  /\ hs[i].ready \in {"OPEN", "CLOSING"} \/ hs[i].closeDue
  /\ LET h1 == [hs EXCEPT ![i].ready = "CLOSED", ![i].closeDue = FALSE]
     IN hs' = IF hs[i].cleanL THEN pingCleanup(h1, i) ELSE h1
  /\ Record("close")
  /\ UNCHANGED <<stats, frameCount, lastFrame, latencyStart, now, hasMemory, hookArg,
                 cleanupRef, hookMounted, rafActive, memActive, lastUsed, lastTotal>>
  /\ UNCHANGED <<lastT, uncounted>>
  /\ UNCHANGED <<dashVars, wsVars, procVars>>

\* (the ping is sent whatever the readyState)
pingTick_unguarded(i) ==
  /\ hs[i].ping
  /\ latencyStart' = now
  /\ Record("ping")
  /\ UNCHANGED <<stats, frameCount, lastFrame, now, hasMemory, hs, hookArg, cleanupRef,
                 hookMounted, rafActive, memActive, lastUsed, lastTotal>>
  /\ UNCHANGED <<lastT, uncounted>>
  /\ UNCHANGED <<dashVars, wsVars, procVars>>

\* the 5 s ping interval of socket i fires; lastOp = "ping" records that
\* ws.send ran, "ping_skipped" that it did not
pingTick(i) ==
  /\ hs[i].ping
  /\ IF hs[i].ready = "OPEN"
       THEN latencyStart' = now /\ Record("ping")
       ELSE UNCHANGED latencyStart /\ Record("ping_skipped")
  /\ UNCHANGED <<stats, frameCount, lastFrame, now, hasMemory, hs, hookArg, cleanupRef,
                 hookMounted, rafActive, memActive, lastUsed, lastTotal>>
  /\ UNCHANGED <<lastT, uncounted>>
  /\ UNCHANGED <<dashVars, wsVars, procVars>>

\* onMessage(e) on socket i: kind is "pong", "metric" (parses, type is not
\* pong) or "malformed"
onMessage(i, kind) ==
  /\ hs[i].msgL
  /\ hs[i].ready \in {"OPEN", "CLOSING"}
  /\ IF kind = "pong" /\ truthy(latencyStart)
       THEN /\ stats' = latencyUpdate(stats, now - latencyStart)
            /\ latencyStart' = Null
       ELSE UNCHANGED <<stats, latencyStart>>
  /\ Record(IF kind = "pong" THEN "pong" ELSE "other")
  /\ UNCHANGED <<frameCount, lastFrame, now, hasMemory, hs, hookArg, cleanupRef,
                 hookMounted, rafActive, memActive, lastUsed, lastTotal>>
  /\ UNCHANGED <<lastT, uncounted>>
  /\ UNCHANGED <<dashVars, wsVars, procVars>>

\* the component unmounts: the cleanups of the three effects run
unmount ==
  /\ hookMounted
  /\ hookMounted' = FALSE
  /\ rafActive' = FALSE
  /\ memActive' = FALSE
  /\ hs' = IF hookArg # 0 THEN effectCleanup(hs, hookArg, cleanupRef) ELSE hs
  /\ Record("unmount")
  /\ UNCHANGED <<stats, frameCount, lastFrame, latencyStart, now, hasMemory, hookArg,
                 cleanupRef, lastUsed, lastTotal>>
  /\ UNCHANGED <<lastT, uncounted>>
  /\ UNCHANGED <<dashVars, wsVars, procVars>>

\* time passes
tick(t) ==
  /\ t > now
  /\ now' = t
  /\ Record("other")
  /\ UNCHANGED <<stats, frameCount, lastFrame, latencyStart, hasMemory, hs, hookArg,
                 cleanupRef, hookMounted, rafActive, memActive, lastUsed, lastTotal>>
  /\ UNCHANGED <<lastT, uncounted>>
  /\ UNCHANGED <<dashVars, wsVars, procVars>>

\* the hook after its first render and effects: ws was null, Dashboard's
\* effect has created the first socket, lastFrame is performance.now()
MonInit ==
  /\ stats = InitStats
  /\ frameCount = 0
  /\ lastFrame = 0
  /\ latencyStart = Null
  /\ now = 0
  /\ hs = <<NewSocket>>
  /\ hookArg = 0
  /\ cleanupRef = 0
  /\ hookMounted = TRUE
  /\ rafActive = TRUE
  /\ memActive = TRUE
  /\ lastUsed = 0
  /\ lastTotal = 0
  /\ lastT = 0
  /\ uncounted = 0
  /\ lastOp = "init"
  /\ prevStats = InitStats
  /\ prevStart = Null

(***************************************************************************)
(* useWebSocket.ts                                                         *)
(***************************************************************************)
\* useWebSocket.ts:13 slices by 999; the model scales the number down (its
\* only use is that slice).
WS_KEEP   == 2
MaxWsMsgs == 4       \* message events delivered to useWebSocket in one run

\* JSON.parse(event.data) of a payload that parses: the point it describes
parsePoint(raw) == [siteId |-> raw.siteId]

\* (the new point is appended to the whole previous array)
keepLast_all(prev, point) == prev \o <<point>>

\* the updater handed to setData: [...prev.slice(-999), point]
keepLast(prev, point) == slice(prev, WS_KEEP) \o <<point>>

\* the socket's open event
useWebSocket_onopen ==
  /\ wsReadyState = "CONNECTING"
  /\ wsReadyState' = "OPEN"
  /\ UNCHANGED <<wsData, wsMounted, wsArrived, wsCount>>
  /\ UNCHANGED <<dashVars, monVars, procVars>>

\* ws.onmessage: JSON.parse throws on a malformed payload; a state update
\* after unmount is discarded
useWebSocket_onmessage(raw) ==
  /\ wsReadyState \in {"OPEN", "CLOSING"}
  /\ wsCount < MaxWsMsgs
  /\ wsCount' = wsCount + 1
  /\ IF JSONparses(raw) /\ wsMounted
       THEN /\ wsData' = keepLast(wsData, parsePoint(raw))
            /\ wsArrived' = Append(wsArrived, parsePoint(raw))
       ELSE UNCHANGED <<wsData, wsArrived>>
  /\ UNCHANGED <<wsReadyState, wsMounted>>
  /\ UNCHANGED <<dashVars, monVars, procVars>>

\* ws.onerror: the error is logged; the connection has failed
useWebSocket_onerror ==
  /\ wsReadyState \in {"CONNECTING", "OPEN", "CLOSING"}
  /\ wsReadyState' = "CLOSED"
  /\ UNCHANGED <<wsData, wsMounted, wsArrived, wsCount>>
  /\ UNCHANGED <<dashVars, monVars, procVars>>

\* the effect cleanup: ws.close()
useWebSocket_cleanup ==
  /\ wsMounted
  /\ wsMounted' = FALSE
  /\ wsReadyState' = IF wsReadyState = "CLOSED" THEN "CLOSED" ELSE "CLOSING"
  /\ UNCHANGED <<wsData, wsArrived, wsCount>>
  /\ UNCHANGED <<dashVars, monVars, procVars>>

\* the socket's close event
useWebSocket_onclose ==
  /\ wsReadyState \in {"OPEN", "CLOSING"}
  /\ wsReadyState' = "CLOSED"
  /\ UNCHANGED <<wsData, wsMounted, wsArrived, wsCount>>
  /\ UNCHANGED <<dashVars, monVars, procVars>>

\* useWebSocket after its first render and effect
WsInit ==
  /\ wsData = <<>>
  /\ wsReadyState = "CONNECTING"
  /\ wsMounted = TRUE
  /\ wsArrived = <<>>
  /\ wsCount = 0

(***************************************************************************)
(* useDataProcessor (unnamed/part_000)                                     *)
(***************************************************************************)
\* part_000:12 sets chunkSize = 100; the model scales it down (its only uses
\* are the slice and the step of index).
chunkSize == 2
MaxInput  == 5       \* length of the longest array handed to processData
MaxCalls  == 2       \* processData calls in one run

\* the array handed to the c-th call, of length n: n distinct items
InputData(c, n) == [k \in 1..n |-> [call |-> c, pos |-> k]]

\* {...item, processed: Date.now(), cache: ...}
processItem(item) == [call |-> item.call, pos |-> item.pos, processed |-> TRUE]

\* data.slice(from, to).map(f), from and to counted from 0, to exclusive
sliceMap(arr, from, to) ==
  LET end == IF to < Len(arr) THEN to ELSE Len(arr)
  IN [k \in 1..(IF end > from THEN end - from ELSE 0) |-> processItem(arr[from + k])]

\* processData(data): a new closure (result, index) and its first idle callback
processData(n) ==
  /\ Len(runs) < MaxCalls
  /\ processing' = TRUE
  /\ runs' = Append(runs, [data |-> InputData(Len(runs) + 1, n), index |-> 0,
                           result |-> <<>>, due |-> TRUE, chunks |-> 0, sets |-> 0])
  /\ idleQueue' = Append(idleQueue, Len(runs) + 1)
  /\ UNCHANGED processedData
  /\ UNCHANGED <<dashVars, monVars, wsVars>>

\* (the chunk replaces result instead of being appended to it)
processChunk_overwrite ==
  /\ idleQueue # <<>>
  /\ LET r      == Head(idleQueue)
         run    == runs[r]
         chunk  == sliceMap(run.data, run.index, run.index + chunkSize)
         result == chunk
         index  == run.index + chunkSize
     IN IF index < Len(run.data)
          THEN /\ runs' = [runs EXCEPT ![r].result = result, ![r].index = index,
                                        ![r].chunks = @ + 1]
               /\ idleQueue' = Append(Tail(idleQueue), r)
               /\ UNCHANGED <<processedData, processing>>
          ELSE /\ runs' = [runs EXCEPT ![r].result = result, ![r].index = index,
                                        ![r].chunks = @ + 1, ![r].due = FALSE,
                                        ![r].sets = @ + 1]
               /\ idleQueue' = Tail(idleQueue)
               /\ processedData' = result
               /\ processing' = FALSE
  /\ UNCHANGED <<dashVars, monVars, wsVars>>

\* processChunk: the idle callback posted first runs
processChunk ==
  /\ idleQueue # <<>>
  /\ LET r      == Head(idleQueue)
         run    == runs[r]
         chunk  == sliceMap(run.data, run.index, run.index + chunkSize)
         result == run.result \o chunk
         index  == run.index + chunkSize
     IN IF index < Len(run.data)
          THEN /\ runs' = [runs EXCEPT ![r].result = result, ![r].index = index,
                                        ![r].chunks = @ + 1]
               /\ idleQueue' = Append(Tail(idleQueue), r)
               /\ UNCHANGED <<processedData, processing>>
          ELSE /\ runs' = [runs EXCEPT ![r].result = result, ![r].index = index,
                                        ![r].chunks = @ + 1, ![r].due = FALSE,
                                        ![r].sets = @ + 1]
               /\ idleQueue' = Tail(idleQueue)
               /\ processedData' = result
               /\ processing' = FALSE
  /\ UNCHANGED <<dashVars, monVars, wsVars>>

\* useDataProcessor after its first render
ProcInit ==
  /\ processedData = <<>>
  /\ processing = FALSE
  /\ runs = <<>>
  /\ idleQueue = <<>>

\* Dashboard after its first render and effect: connectWebSocket() has run once
DashInit ==
  /\ data = <<>>
  /\ sites = <<>>
  /\ socks = <<"CONNECTING">>
  /\ wsRef = 1
  /\ timers = 0
  /\ mounted = TRUE
  /\ closeCalls = 0
  /\ msgCount = 0
  /\ lastRaw = [kind |-> "none", siteId |-> Undefined]
  /\ ingested = [s \in SiteIds \cup {Undefined} |-> 0]
  /\ received = [s \in SiteIds \cup {Undefined} |-> <<>>]
  /\ uncaught = 0
  /\ seen = <<>>
  /\ inPlace = FALSE

Init == DashInit /\ MonInit /\ WsInit /\ ProcInit /\ hasMemory = TRUE

\* the host may or may not expose window.performance.memory
InitMon == DashInit /\ MonInit /\ WsInit /\ ProcInit /\ hasMemory \in BOOLEAN

Next ==
  \/ TimerFires
  \/ \E i \in 1..Len(socks) : SockOpen(i)
  \/ \E i \in 1..Len(socks) : SockError(i)
  \/ \E i \in 1..Len(socks) : SockClose(i)
  \/ \E i \in 1..Len(socks), raw \in RawMessages : onmessage(i, raw, freshId)
  \/ \E i \in 1..Len(socks), raw \in RawMessages, id \in tailIds : onmessage(i, raw, id)
  \/ cleanup

Spec == Init /\ [][Next]_vars

\* the three samplers on the first socket, which opens and closes, with time
\* passing
NextMon ==
  \/ \E t \in PerfTimes : loop(t)
  \/ \E used \in UsedHeap, total \in TotalHeap : memoryTick(used, total)
  \/ wsEffect
  \/ \E i \in 1..Len(hs) : wsOpen(i)
  \/ \E i \in 1..Len(hs) : wsClose(i)
  \/ \E i \in 1..Len(hs) : pingTick(i)
  \/ \E i \in 1..Len(hs), kind \in {"pong", "metric", "malformed"} : onMessage(i, kind)
  \/ \E t \in Times : tick(t)

SpecMon == InitMon /\ [][NextMon]_vars

\* the hook across socket restarts and unmount, at one instant
NextLife ==
  \/ \E t \in PerfTimes : frameCount < MaxLifeFrames /\ loop(t)
  \/ \E used \in UsedHeap, total \in TotalHeap : memoryTick(used, total)
  \/ wsEffect
  \/ wsRestart
  \/ \E i \in 1..Len(hs) : wsOpen(i)
  \/ \E i \in 1..Len(hs) : wsClosing(i)
  \/ \E i \in 1..Len(hs) : wsError(i)
  \/ \E i \in 1..Len(hs) : wsClose(i)
  \/ \E i \in 1..Len(hs) : pingTick(i)
  \/ \E i \in 1..Len(hs), kind \in {"pong", "metric", "malformed"} : onMessage(i, kind)
  \/ unmount

SpecLife == Init /\ [][NextLife]_vars

\* the latency prober on the first socket through every readyState, with time
\* passing
NextPing ==
  \/ wsEffect
  \/ \E i \in 1..Len(hs) : wsOpen(i)
  \/ \E i \in 1..Len(hs) : wsClosing(i)
  \/ \E i \in 1..Len(hs) : wsError(i)
  \/ \E i \in 1..Len(hs) : wsClose(i)
  \/ \E i \in 1..Len(hs) : pingTick(i)
  \/ \E i \in 1..Len(hs), kind \in {"pong", "metric", "malformed"} : onMessage(i, kind)
  \/ \E t \in Times : tick(t)

SpecPing == Init /\ [][NextPing]_vars

NextWs ==
  \/ useWebSocket_onopen
  \/ \E raw \in RawMessages : useWebSocket_onmessage(raw)
  \/ useWebSocket_onerror
  \/ useWebSocket_onclose
  \/ useWebSocket_cleanup

SpecWs == Init /\ [][NextWs]_vars

NextProc ==
  \/ \E n \in 0..MaxInput : processData(n)
  \/ processChunk

\* idle callbacks keep being granted
SpecProc == Init /\ [][NextProc]_vars /\ WF_vars(processChunk)

(***************************************************************************)
(* Properties                                                              *)
(***************************************************************************)
AlertSet(alerts) == {alerts[k] : k \in 1..Len(alerts)}
LiveSockets == {i \in 1..Len(socks) : Live(socks[i])}
IsMetric(raw) == raw.kind = "metric"

\* C1: every retained history array (data and each site's window) has at most
\* MAX_POINTS elements.
C1_Claim ==
  /\ Len(data) <= MAX_POINTS
  /\ \A k \in 1..Len(sites) : Len(sites[k].data) <= MAX_POINTS

\* C2: in every state the alerts are exactly those the current field values
\* warrant: Low FPS iff fps < 30, High Memory Usage iff memoryUsedMB > 400,
\* High WebSocket Latency iff latencyMs > 200.
C2_Claim ==
  AlertSet(stats.alerts) =
    (IF stats.fps < LOW_FPS THEN {LowFps} ELSE {}) \cup
    (IF stats.memoryUsedMB > HIGH_MEMORY THEN {HighMemory} ELSE {}) \cup
    (IF stats.latencyMs > HIGH_LATENCY THEN {HighLatency} ELSE {})

\* C3: before teardown at most one reconnect timer is pending, and pending
\* timers and live sockets (connecting or open) together number at most one,
\* also after a socket has reported both its error and its close event.
C3_OneConnection ==
  mounted => (timers <= 1 /\ Cardinality(LiveSockets) + timers <= 1)

\* C3 witness: a socket has reported its error and then its close event while
\* the single reconnect timer is still pending.
C3_Witness ==
  /\ mounted
  /\ timers = 1
  /\ socks[wsRef] = "CLOSED"
  /\ LiveSockets = {}

\* C4: after teardown the transport has been closed exactly once, no new
\* socket is created and no message changes data or sites.
C4_Claim ==
  [][~mounted => /\ closeCalls = 1
                 /\ closeCalls' = closeCalls
                 /\ Len(socks') = Len(socks)
                 /\ data' = data
                 /\ sites' = sites]_vars

\* C5: a message delivered a second time in immediate succession leaves data
\* and sites (every window's length and contents) unchanged.
C5_Claim ==
  [][(msgCount' = msgCount + 1 /\ IsMetric(lastRaw) /\ lastRaw' = lastRaw)
       => (data' = data /\ sites' = sites)]_vars

\* C6: for every site the event source reports, baselineCount equals the
\* number of events ingested for the site minus the length of its window.
C6_Claim ==
  \A k \in 1..Len(sites) :
    sites[k].siteId \in SiteIds =>
      baselineCount(sites[k]) = ingested[sites[k].siteId] - Len(sites[k].data)

\* C7: a pong that answers a ping sent at time s (s = 0 included) sets
\* latencyMs to the receipt time minus s, clears the pending ping, and asserts
\* High WebSocket Latency iff that difference exceeds 200.
C7_Claim ==
  (lastOp = "pong" /\ prevStart # Null) =>
    /\ stats.latencyMs = now - prevStart
    /\ latencyStart = Null
    /\ (HighLatency \in AlertSet(stats.alerts)) <=> (now - prevStart > HIGH_LATENCY)

\* C8: a pong received while no ping is pending changes nothing: stats (fps,
\* memory fields, latencyMs, alerts) keep their values and no ping is pending.
C8_StalePongIgnored ==
  (lastOp = "pong" /\ prevStart = Null) => (stats = prevStats /\ latencyStart = Null)

\* C8 witness: a second pong arrives after the pending ping was answered with
\* a latency of 201 ms.
C8_Witness ==
  /\ lastOp = "pong"
  /\ prevStart = Null
  /\ stats.latencyMs = 201
  /\ HighLatency \in AlertSet(stats.alerts)

\* C9: right after every FPS evaluation, Low FPS is among the alerts iff the
\* fps value just reported is below 30.
C9_LowFpsFresh ==
  (lastOp = "fps") => ((LowFps \in AlertSet(stats.alerts)) <=> (stats.fps < LOW_FPS))

\* C9 witness: a third report of 25 fps follows a report of 31 fps: the alert
\* retracted by the earlier report is asserted again.
C9_Witness ==
  /\ lastOp = "fps"
  /\ lastFrame = 3 * FPS_WINDOW
  /\ stats.fps = 25
  /\ prevStats.fps = 31
  /\ LowFps \notin AlertSet(prevStats.alerts)
  /\ LowFps \in AlertSet(stats.alerts)

\* C10: an update of one telemetry field leaves the alerts of the other two
\* categories as they were.
C10_Claim ==
  LET before == AlertSet(prevStats.alerts)
      after  == AlertSet(stats.alerts)
      Kept(a) == (a \in before) <=> (a \in after)
  IN /\ (lastOp = "fps")    => (Kept(HighMemory) /\ Kept(HighLatency))
     /\ (lastOp = "memory") => (Kept(LowFps) /\ Kept(HighLatency))
     /\ (lastOp = "pong")   => (Kept(LowFps) /\ Kept(HighMemory))

\* C11: a non-parseable payload is dropped by the handler that receives it:
\* data and sites keep their values and no exception escapes the handler.
C11_Claim ==
  [][(msgCount' = msgCount + 1 /\ lastRaw'.kind = "malformed")
       => (data' = data /\ sites' = sites /\ uncaught' = uncaught)]_vars

\* C12: a pong control message (or any payload without siteId) is never
\* ingested by the aggregator: no site series and no data element comes from it.
C12_Claim ==
  /\ \A k \in 1..Len(sites) : sites[k].siteId \in SiteIds
  /\ \A k \in 1..Len(data) : data[k].siteId \in SiteIds

\* C13: the window of each site the event source reports is a suffix of the
\* sequence of events received for the site, in delivery order.
C13_Claim ==
  \A k \in 1..Len(sites) :
    LET all == received[sites[k].siteId]
        win == sites[k].data
    IN sites[k].siteId \in SiteIds =>
         /\ Len(win) <= Len(all)
         /\ win = SubSeq(all, Len(all) - Len(win) + 1, Len(all))

\* C14: before teardown the reconnect loop never gives up: whenever no socket
\* is connecting or open, a reconnect timer is pending (and its firing is the
\* next connection attempt).
C14_Claim ==
  mounted => (LiveSockets # {} \/ timers > 0)

HookSockets == 1..Len(hs)

C15_Held ==
  /\ Cardinality({i \in HookSockets : hs[i].ping}) <= 1
  /\ Cardinality({i \in HookSockets : hs[i].msgL}) <= 1
  /\ \A i \in HookSockets : (hs[i].ping \/ hs[i].msgL) => i = hookArg
  /\ \A i \in HookSockets :
       (hs[i].ready = "CLOSED" \/ i # hookArg \/ ~hookMounted) =>
         (~hs[i].ping /\ ~hs[i].msgL)
  /\ \A i \in HookSockets : (i # hookArg \/ ~hookMounted) => ~hs[i].openL
  /\ ~hookMounted => (~rafActive /\ ~memActive)

\* a cleanup that runs when nothing is left to clean changes nothing
C15_Again ==
  (/\ lastOp' \in {"close", "error", "unmount"}
   /\ \A i \in HookSockets : ~hs[i].ping /\ ~hs[i].msgL /\ ~hs[i].openL)
    => /\ \A i \in HookSockets :
            /\ hs'[i].ping = hs[i].ping
            /\ hs'[i].msgL = hs[i].msgL
            /\ hs'[i].openL = hs[i].openL
            /\ hs'[i].cleanL = hs[i].cleanL
       /\ stats' = stats
       /\ latencyStart' = latencyStart
       /\ cleanupRef' = cleanupRef

C16_LastEntries ==
  LET n == Len(wsArrived)
      m == IF n < WS_KEEP + 1 THEN n ELSE WS_KEEP + 1
  IN wsData = SubSeq(wsArrived, n - m + 1, n)

\* C16 witness: one point more than the array keeps has arrived, the two
\* oldest points differ, and the array is full.
C16_Witness ==
  /\ wsMounted
  /\ Len(wsArrived) = WS_KEEP + 2
  /\ wsArrived[1] # wsArrived[2]
  /\ Len(wsData) = WS_KEEP + 1

\* m is the whole number of megabytes nearest to bytes
NearestMB(m, bytes) == 2 * (m * MB - bytes) <= MB /\ 2 * (bytes - m * MB) <= MB

\* C17 as stated: right after a memory sample the two fields are the heap
\* sizes in MB rounded to the nearest integer, and High Memory Usage is
\* present iff the reported memoryUsedMB exceeds 400.
C17_Claim ==
  (lastOp = "memory") =>
    /\ NearestMB(stats.memoryUsedMB, lastUsed)
    /\ NearestMB(stats.memoryTotalMB, lastTotal)
    /\ (HighMemory \in AlertSet(stats.alerts)) <=> (stats.memoryUsedMB > HIGH_MEMORY)

\* C17 (amended): right after a memory sample the two fields are the heap
\* sizes in MB rounded to the nearest integer, and High Memory Usage is
\* present iff the used heap itself, before rounding, exceeds 400 MB (so a
\* reported memoryUsedMB of 400 can carry the alert); an alert raised earlier
\* is retracted by the next sample whose used heap is not above 400 MB.
C17_MemorySample ==
  (lastOp = "memory") =>
    /\ NearestMB(stats.memoryUsedMB, lastUsed)
    /\ NearestMB(stats.memoryTotalMB, lastTotal)
    /\ (HighMemory \in AlertSet(stats.alerts)) <=> (lastUsed > HIGH_MEMORY * MB)

\* C17 witness: a sample of one byte more than 400 MB follows a sample of
\* 300 MB: memoryUsedMB reads 400 and the alert is raised.
C17_Witness ==
  /\ lastOp = "memory"
  /\ lastUsed = HIGH_MEMORY * MB + 1
  /\ stats.memoryUsedMB = HIGH_MEMORY
  /\ prevStats.memoryUsedMB = 300
  /\ HighMemory \notin AlertSet(prevStats.alerts)
  /\ HighMemory \in AlertSet(stats.alerts)

\* C18: every write keeps the fields of the other samplers at the values
\* they had when the write ran: a memory write keeps fps and latencyMs, a
\* latency write keeps fps, memoryUsedMB and memoryTotalMB, an FPS write keeps
\* memoryUsedMB, memoryTotalMB and latencyMs.
C18_FieldScoped ==
  /\ (lastOp = "memory") =>
       /\ stats.fps = prevStats.fps
       /\ stats.latencyMs = prevStats.latencyMs
  /\ (lastOp = "pong") =>
       /\ stats.fps = prevStats.fps
       /\ stats.memoryUsedMB = prevStats.memoryUsedMB
       /\ stats.memoryTotalMB = prevStats.memoryTotalMB
  /\ (lastOp = "fps") =>
       /\ stats.memoryUsedMB = prevStats.memoryUsedMB
       /\ stats.memoryTotalMB = prevStats.memoryTotalMB
       /\ stats.latencyMs = prevStats.latencyMs

\* C18 witness: a memory sample of 500 MB is written after an FPS report of
\* 29 and a measured latency of 201 ms, and both are still there.
C18_Witness ==
  /\ lastOp = "memory"
  /\ prevStats.memoryUsedMB = 0
  /\ stats.memoryUsedMB = 500
  /\ stats.fps = 29
  /\ stats.latencyMs = 201

\* C19: on a tick of the ping interval a ping is sent, and the pending send
\* time set to the current time, iff the socket's readyState is OPEN; on a
\* tick in any other state nothing is sent and the pending send time keeps
\* its value.
C19_PingOnlyWhenOpen ==
  (lastOp \in {"ping", "ping_skipped"}) =>
    \E i \in HookSockets :
      /\ hs[i].ping
      /\ (lastOp = "ping") <=> (hs[i].ready = "OPEN")
      /\ (lastOp = "ping") => (latencyStart = now)
      /\ (lastOp = "ping_skipped") => (latencyStart = prevStart)

\* C19 witness: the interval fires while the socket is CLOSING and a ping
\* sent at time 50 is still pending: nothing is sent, the pending time stays.
C19_Witness ==
  /\ lastOp = "ping_skipped"
  /\ hs[1].ready = "CLOSING"
  /\ latencyStart = 50
  /\ now = 251

\* C20: on a host without window.performance.memory a tick of the memory
\* interval leaves stats (memoryUsedMB, memoryTotalMB, fps, latencyMs, alerts)
\* as they were, and the interval stays active.
C20_UnsupportedHostNoop ==
  (~hasMemory /\ lastOp \in {"memory", "memory_unsupported"}) =>
    (stats = prevStats /\ memActive)

\* C20 witness: the interval fires on such a host while Low FPS and High
\* WebSocket Latency are both active.
C20_Witness ==
  /\ ~hasMemory
  /\ lastOp = "memory_unsupported"
  /\ stats.fps = 29
  /\ stats.latencyMs = 201
  /\ stats.alerts = <<LowFps, HighLatency>>
  /\ stats.memoryUsedMB = 0

\* C21: sites holds exactly one entry per distinct siteId value of the
\* payloads ingested so far, in order of first appearance (seen only grows, so
\* no entry is ever removed or moved).
C21_SiteList ==
  [k \in 1..Len(sites) |-> sites[k].siteId] = seen

\* C21 witness: site b appeared first, site a second, and b received two more
\* events afterwards.
C21_Witness ==
  /\ Len(sites) = 2
  /\ sites[1].siteId = "b"
  /\ sites[2].siteId = "a"
  /\ ingested["b"] = 3
  /\ lastRaw.siteId = "b"

\* C26: a message for site A leaves every other site's entry as it was, keeps
\* every entry at its position, removes none, and writes to no array or object
\* the previous sites value holds.
C26_OnlyOwnSeries ==
  [][(msgCount' = msgCount + 1) =>
       /\ Len(sites') >= Len(sites)
       /\ \A k \in 1..Len(sites) :
            /\ sites'[k].siteId = sites[k].siteId
            /\ (sites[k].siteId # lastRaw'.siteId) => (sites'[k] = sites[k])
       /\ ~inPlace']_vars

\* C26 witness: site a holds one event and site b has just received its third:
\* b's window is full, a's is as it was.
C26_Witness ==
  /\ Len(sites) = 2
  /\ sites[1].siteId = "a"
  /\ Len(sites[1].data) = 1
  /\ sites[2].siteId = "b"
  /\ Len(sites[2].data) = MAX_POINTS + 1
  /\ lastRaw.siteId = "b"
  /\ ~inPlace

\* C22: one cell holds the pending send time: a ping overwrites it with the
\* current time whether or not an earlier ping is unanswered; the next pong
\* sets latencyMs to the receipt time minus that send time and clears the
\* cell; a pong that finds the cell empty changes nothing.
C22_Claim ==
  /\ (lastOp = "ping") => (latencyStart = now)
  /\ (lastOp = "pong" /\ prevStart # Null) =>
       (stats.latencyMs = now - prevStart /\ latencyStart = Null)
  /\ (lastOp = "pong" /\ prevStart = Null) =>
       (stats = prevStats /\ latencyStart = Null)

\* every callback run so far is in a report or in frameCount, and no callback
\* a full second after the window start went by without a report
C23_Counted ==
  /\ uncounted = 0
  /\ lastT - lastFrame < FPS_WINDOW

\* a step that moves the window start is a report: it happens a full second
\* or more after the previous one, at the callback's time, with fps the count
\* held plus the reporting callback, and resets the count; a callback that
\* does not report adds one to the count and leaves stats alone
C23_Report ==
  /\ (lastFrame' # lastFrame) =>
       /\ lastFrame' - lastFrame >= FPS_WINDOW
       /\ lastFrame' = lastT'
       /\ stats'.fps = frameCount + 1
       /\ frameCount' = 0
  /\ (lastFrame' = lastFrame /\ frameCount' # frameCount) =>
       /\ frameCount' = frameCount + 1
       /\ stats' = stats

\* C23: every render callback is counted in exactly one report: a report is
\* issued at the first callback at least 1000 ms after the previous report,
\* its fps is the number of callbacks since that report (the reporting one
\* included), the counter restarts at 0 and the window starts at that
\* callback's time; the reported values sum to the number of callbacks run
\* up to the last report.
C23_EveryCallbackCounted ==
  []C23_Counted /\ [][C23_Report]_vars

\* C23 witness: the second report, of 25 callbacks, follows a first report
\* of 31.
C23_Witness ==
  /\ lastOp = "fps"
  /\ lastFrame = 2 * FPS_WINDOW
  /\ lastT = lastFrame
  /\ frameCount = 0
  /\ stats.fps = 25
  /\ prevStats.fps = 31
  /\ uncounted = 0

\* what a run over data hands to setProcessedData
Expected(arr) == [k \in 1..Len(arr) |-> processItem(arr[k])]

\* C24: with two overlapping processData calls each run computes its own
\* result, processing is TRUE as long as a run has a callback due, and once
\* all runs have finished processedData is the result of the latest call.
C24_Claim ==
  /\ \A r \in 1..Len(runs) : ~runs[r].due => runs[r].result = Expected(runs[r].data)
  /\ (\E r \in 1..Len(runs) : runs[r].due) => processing
  /\ (runs # <<>> /\ \A r \in 1..Len(runs) : ~runs[r].due) =>
       processedData = Expected(runs[Len(runs)].data)

\* callbacks a run over n items needs: max(1, ceil(n / chunkSize))
Callbacks(n) ==
  IF n = 0 THEN 1 ELSE (n + chunkSize - 1) \div chunkSize

\* while the only call runs, processing is TRUE and processedData untouched;
\* when it has finished, it ran Callbacks(n) callbacks, set processedData
\* once, to the n processed items in input order, and processing is FALSE
C25_Safe ==
  (Len(runs) = 1) =>
    IF runs[1].due
      THEN /\ processing
           /\ processedData = <<>>
           /\ runs[1].sets = 0
           /\ runs[1].chunks < Callbacks(Len(runs[1].data))
      ELSE /\ ~processing
           /\ runs[1].sets = 1
           /\ runs[1].chunks = Callbacks(Len(runs[1].data))
           /\ Len(processedData) = Len(runs[1].data)
           /\ \A k \in 1..Len(processedData) :
                /\ processedData[k].call = runs[1].data[k].call
                /\ processedData[k].pos = runs[1].data[k].pos
                /\ processedData[k].processed

\* C25: a single processData call over n items terminates when idle callbacks
\* keep being granted: after exactly max(1, ceil(n / chunkSize)) callbacks
\* processing is FALSE and processedData has been set once, to the n processed
\* items in input order; until then processing is TRUE and processedData
\* unchanged.
C25_SingleCall ==
  []C25_Safe /\ ((Len(runs) >= 1) ~> (Len(runs) >= 1 /\ ~runs[1].due))

\* C25 witness: the only call, over MaxInput items, has finished after more
\* than one callback.
C25_Witness ==
  /\ Len(runs) = 1
  /\ ~runs[1].due
  /\ Len(runs[1].data) = MaxInput
  /\ runs[1].chunks > 1
  /\ Len(processedData) = MaxInput
  /\ ~processing

====
